---- MODULE Spec2Model ----
(***************************************************************************)
(* near-forms: the WASI module (wasi-near-forms-ark) and the storage       *)
(* service (db-api).                                                       *)
(*                                                                         *)
(* Byte strings are modelled by the features the code reads: a decoded     *)
(* envelope is a record of its length, its first four bytes, its 33-byte   *)
(* ephemeral-key field, its nonce and its AEAD ciphertext.  The curve is   *)
(* the additive group of integers modulo a small prime (the generator is   *)
(* 1, the point k*G is k, 0 stands for bytes that decode to no point).     *)
(* SHA-256, HKDF and ChaCha20-Poly1305 are symbolic.                       *)
(***************************************************************************)
EXTENDS Integers, Sequences, FiniteSets, TLC

(***************************************************************************)
(* Results: Rust's Result<T, E> with E a message.                          *)
(***************************************************************************)
Ok(v) == [ok |-> TRUE, val |-> v, err |-> ""]

Err(e) == [ok |-> FALSE, err |-> e]

(***************************************************************************)
(* Program constants.                                                      *)
(***************************************************************************)
FORM_ID == "daf14a0c-20f7-4199-a07b-c6456d53ef2d"

ECDH_MAGIC == "EC01"

DERIVATION_PREFIX == "near-forms:v1:"

HEADER_SIZE == 4

PUBKEY_SIZE == 33

NONCE_SIZE == 12

TAG_SIZE == 16

MIN_SIZE == HEADER_SIZE + PUBKEY_SIZE + NONCE_SIZE + TAG_SIZE

MIN_EC01_SIZE == 4 + 33 + 12 + 16

MAX_BLOB_SIZE == 200 * 1024

DB_MAX_BLOB_SIZE == 200 * 1024

REQUEST_BODY_LIMIT == 250 * 1024

MAX_SUBMITTER_LEN == 64

(***************************************************************************)
(* The group of scalars and points (libsecp256k1, scaled down): scalars    *)
(* are the integers modulo CurveOrder, a 32-byte string read big-endian is *)
(* an integer in 0..ScalarBytesMax.                                        *)
(***************************************************************************)
CurveOrder == 2 + 3

ScalarBytesMax == CurveOrder + 2

\* SecretKey::parse_slice: 32 bytes, nonzero, below the curve order.
SecretKeyParse(nbytes, v) ==
    IF nbytes # 32 THEN Err("InvalidInputLength")
    ELSE IF v = 0 \/ v >= CurveOrder THEN Err("InvalidSecretKey")
    ELSE Ok(v)

\* SecretKey::tweak_add_assign: the sum modulo the order, an error when it is zero.
TweakAdd(sk, tweak) ==
    LET s == (sk + tweak) % CurveOrder
    IN  IF s = 0 THEN Err("TweakOutOfRange") ELSE Ok(s)

\* PublicKey::from_secret_key: sk * G.
PublicKeyFromSecret(sk) == sk % CurveOrder

\* PublicKey::parse_slice on a 33-byte field: 0 stands for bytes that are no
\* compressed point of the curve.
PublicKeyParse(field) ==
    IF field \in 1..(CurveOrder - 1) THEN Ok(field) ELSE Err("InvalidPublicKey")

\* PublicKey::tweak_mul_assign: the point times the scalar, an error for scalar 0.
TweakMul(point, sk) ==
    IF sk % CurveOrder = 0 THEN Err("TweakOutOfRange")
    ELSE Ok((point * sk) % CurveOrder)

(***************************************************************************)
(* SHA-256 of prefix || form_id, read as a big-endian integer: a fixed     *)
(* table over the form identifiers of the model.  The table holds a zero   *)
(* digest and digests at and above the order.                              *)
(***************************************************************************)
FormIds == {FORM_ID, "form-zero", "form-order", "form-over", "form-b", "form-c"}

Sha256(prefix, form_id) ==
    CASE form_id = FORM_ID      -> 3
      [] form_id = "form-zero"  -> 0
      [] form_id = "form-order" -> CurveOrder
      [] form_id = "form-over"  -> ScalarBytesMax
      [] form_id = "form-b"     -> 1
      [] OTHER                  -> IF prefix = DERIVATION_PREFIX THEN 4 ELSE 2

\* Hkdf::<Sha256>::new(None, ikm).expand(info): symbolic, one key per (ikm, info).
HkdfExpand(ikm, info) == [ikm |-> ikm, info |-> info]

\* ChaCha20Poly1305 decrypt: the plaintext when the key and the nonce are those
\* the ciphertext was sealed under and the tag is intact.
AeadDecrypt(key, nonce, ct) ==
    IF ct.key = key /\ ct.nonce = nonce /\ ct.tag
    THEN Ok(ct.pt) ELSE Err("aead::Error")

\* The sealing side (client tooling), used to build envelopes.
AeadSeal(key, nonce, pt) == [key |-> key, nonce |-> nonce, pt |-> pt, tag |-> TRUE]

(***************************************************************************)
(* Byte strings and hex strings.                                           *)
(*   bytes: len   the number of bytes                                      *)
(*          magic bytes [0..4]                                             *)
(*          eph   bytes [4..37], the point it decodes to (0: none)         *)
(*          nonce bytes [37..49]                                           *)
(*          ct    bytes [49..], a sealed ciphertext with its tag           *)
(*   hex string: the bytes it encodes, and whether its length is odd or    *)
(*          it holds a character that is no hex digit.                     *)
(***************************************************************************)
Bytes(len, magic, eph, nonce, ct) ==
    [len |-> len, magic |-> magic, eph |-> eph, nonce |-> nonce, ct |-> ct]

HexOf(bytes) == [bytes |-> bytes, odd |-> FALSE, badchar |-> FALSE]

\* String::len of a hex string.
StrLen(s) == 2 * s.bytes.len + (IF s.odd THEN 1 ELSE 0)

\* hex::decode: an odd length and a non-hex character are errors.
HexDecode(s) ==
    IF s.odd THEN Err("Odd number of digits")
    ELSE IF s.badchar THEN Err("Invalid character")
    ELSE Ok(s.bytes)

\* serde_json::from_slice::<Value> of a plaintext.
JsonFromSlice(pt) == IF pt.json THEN Ok(pt.val) ELSE Err("expected value")

\* serialize_compressed()[1..]: the x-coordinate, shared by a point and its negative.
SharedX(point) == IF 2 * point <= CurveOrder THEN point ELSE CurveOrder - point

(***************************************************************************)
(* crypto.rs                                                               *)
(***************************************************************************)
\* parse_private_key: hex::decode, whose error is returned as it is, then
\* SecretKey::parse_slice.
parse_private_key(hex_str) ==
    IF hex_str.odd THEN Err("Odd number of digits")
    ELSE IF hex_str.badchar THEN Err("Invalid character")
    ELSE LET k == SecretKeyParse(hex_str.nbytes, hex_str.val)
         IN  IF k.ok THEN k ELSE Err("Invalid private key")

\* derive_form_privkey hashing the form id without the domain prefix.
derive_form_privkey_NoPrefix(master_privkey, form_id) ==
    LET tweak_bytes == Sha256("", form_id)
        tweak == SecretKeyParse(32, tweak_bytes)
    IN  IF ~tweak.ok THEN Err("Failed to create tweak")
        ELSE LET user_privkey == TweakAdd(master_privkey, tweak.val)
             IN  IF ~user_privkey.ok THEN Err("Failed to derive private key")
                 ELSE user_privkey

\* derive_form_privkey reducing the digest modulo the order instead of parsing it.
derive_form_privkey_ReduceTweak(master_privkey, form_id) ==
    LET tweak_bytes == Sha256(DERIVATION_PREFIX, form_id)
        user_privkey == TweakAdd(master_privkey, tweak_bytes % CurveOrder)
    IN  IF ~user_privkey.ok THEN Err("Failed to derive private key")
        ELSE user_privkey

derive_form_privkey(master_privkey, form_id) ==
    LET tweak_bytes == Sha256(DERIVATION_PREFIX, form_id)
        tweak == SecretKeyParse(32, tweak_bytes)
    IN  IF ~tweak.ok THEN Err("Failed to create tweak")
        ELSE LET user_privkey == TweakAdd(master_privkey, tweak.val)
             IN  IF ~user_privkey.ok THEN Err("Failed to derive private key")
                 ELSE user_privkey

\* decrypt_ecdh with a minimum size that leaves out the tag.
decrypt_ecdh_NoTag(user_privkey, encrypted) ==
    IF encrypted.len < HEADER_SIZE + PUBKEY_SIZE + NONCE_SIZE
    THEN [res |-> Err("EC01 data too short"), ops |-> <<>>]
    ELSE LET pk == PublicKeyParse(encrypted.eph)
         IN  IF ~pk.ok
             THEN [res |-> Err("Invalid ephemeral pubkey"), ops |-> <<>>]
             ELSE LET shared_point == TweakMul(pk.val, user_privkey)
                  IN  IF ~shared_point.ok
                      THEN [res |-> Err("ECDH failed"), ops |-> <<"ecdh">>]
                      ELSE LET shared_x == SharedX(shared_point.val)
                               key == HkdfExpand(shared_x, "near-forms:v1:ecdh")
                               decrypted == AeadDecrypt(key, encrypted.nonce, encrypted.ct)
                           IN  IF ~decrypted.ok
                               THEN [res |-> Err("ChaCha20-Poly1305 decryption failed"),
                                     ops |-> <<"ecdh", "hkdf", "aead">>]
                               ELSE [res |-> decrypted,
                                     ops |-> <<"ecdh", "hkdf", "aead">>]

\* decrypt_ecdh, with the cryptographic operations it performed, in order.
decrypt_ecdh(user_privkey, encrypted) ==
    IF encrypted.len < MIN_SIZE
    THEN [res |-> Err("EC01 data too short"), ops |-> <<>>]
    ELSE LET pk == PublicKeyParse(encrypted.eph)
         IN  IF ~pk.ok
             THEN [res |-> Err("Invalid ephemeral pubkey"), ops |-> <<>>]
             ELSE LET shared_point == TweakMul(pk.val, user_privkey)
                  IN  IF ~shared_point.ok
                      THEN [res |-> Err("ECDH failed"), ops |-> <<"ecdh">>]
                      ELSE LET shared_x == SharedX(shared_point.val)
                               key == HkdfExpand(shared_x, "near-forms:v1:ecdh")
                               decrypted == AeadDecrypt(key, encrypted.nonce, encrypted.ct)
                           IN  IF ~decrypted.ok
                               THEN [res |-> Err("ChaCha20-Poly1305 decryption failed"),
                                     ops |-> <<"ecdh", "hkdf", "aead">>]
                               ELSE [res |-> decrypted,
                                     ops |-> <<"ecdh", "hkdf", "aead">>]

\* decrypt_blob without its check of the magic bytes.
decrypt_blob_NoMagic(form_privkey, encrypted) == decrypt_ecdh(form_privkey, encrypted)

decrypt_blob(form_privkey, encrypted) ==
    IF encrypted.len <= 4 \/ encrypted.magic # ECDH_MAGIC
    THEN [res |-> Err("Invalid encryption format: expected EC01 magic bytes"),
          ops |-> <<>>]
    ELSE decrypt_ecdh(form_privkey, encrypted)

(***************************************************************************)
(* The client-side encryptor (not part of the module): the form public key *)
(* from the master public key, and an EC01 envelope for a plaintext.       *)
(***************************************************************************)
FormPubKey(master_pub, form_id) ==
    (master_pub + Sha256(DERIVATION_PREFIX, form_id)) % CurveOrder

EncryptForForm(form_pub, eph_sk, nonce, pt, len) ==
    LET shared == (eph_sk * form_pub) % CurveOrder
        key == HkdfExpand(SharedX(shared), "near-forms:v1:ecdh")
    IN  Bytes(len, ECDH_MAGIC, PublicKeyFromSecret(eph_sk), nonce, AeadSeal(key, nonce, pt))

(***************************************************************************)
(* The envelopes and hex strings of the model.                             *)
(***************************************************************************)
\* The master key of the deployment and the form key pair that follows from it.
MasterSk == 1

FormPub == FormPubKey(PublicKeyFromSecret(MasterSk), FORM_ID)

Answers(v) == [json |-> TRUE, val |-> v]

NotJson == [json |-> FALSE, val |-> "not json"]

\* The plaintext of zero bytes, which is no JSON value.
EmptyPlaintext == [json |-> FALSE, val |-> ""]

E_good == EncryptForForm(FormPub, 2, 7, Answers("q1:yes"), 80)

E_good2 == EncryptForForm(FormPub, 3, 8, Answers("q1:no"), 81)

E_min == EncryptForForm(FormPub, 1, 7, EmptyPlaintext, MIN_SIZE)

E_max == EncryptForForm(FormPub, 2, 7, Answers("long"), MAX_BLOB_SIZE)

E_over == EncryptForForm(FormPub, 2, 7, Answers("long"), MAX_BLOB_SIZE + 1)

E_short == [E_good EXCEPT !.len = MIN_SIZE - 1]

E_len4 == [E_good EXCEPT !.len = 4]

E_tiny == [E_good EXCEPT !.len = 3, !.magic = "EC0"]

E_magic == [E_good EXCEPT !.magic = "EC02"]

E_point == [E_good EXCEPT !.eph = 0]

E_tag == [E_good EXCEPT !.ct.tag = FALSE]

E_nonce == [E_good EXCEPT !.nonce = 9]

E_otherkey == EncryptForForm((FormPub + 3) % CurveOrder, 2, 7, Answers("q1:yes"), 80)

E_notjson == EncryptForForm(FormPub, 2, 7, NotJson, 80)

E_overmagic == [E_over EXCEPT !.magic = "EC02"]

H_odd == [HexOf(E_good) EXCEPT !.odd = TRUE]

H_badchar == [HexOf(E_good) EXCEPT !.badchar = TRUE]

AllEnvelopes ==
    {E_good, E_good2, E_min, E_max, E_over, E_short, E_len4, E_tiny, E_magic,
     E_point, E_tag, E_nonce, E_otherkey, E_notjson, E_overmagic}

AllHex == {HexOf(e) : e \in AllEnvelopes} \cup {H_odd, H_badchar}

(***************************************************************************)
(* types.rs: the request and its deserialisation.                          *)
(*   body: json     whether the bytes are a JSON object                    *)
(*         action   the "action" tag ("" when the field is missing)        *)
(*         has_answers, encrypted_answers: the field and its value         *)
(*         submitter_id  a field of that name in the payload ("": none)    *)
(***************************************************************************)
NoHex == [bytes |-> Bytes(0, "", 0, 0, AeadSeal(HkdfExpand(0, ""), 0, NotJson)),
          odd |-> FALSE, badchar |-> FALSE]

Body(json, action, has, hex) ==
    [json |-> json, action |-> action, has_answers |-> has, encrypted_answers |-> hex,
     submitter_id |-> ""]

\* A SubmitForm body that also carries a submitter_id field.
BodyWithSubmitter(hex, submitter_id) ==
    [Body(TRUE, "SubmitForm", TRUE, hex) EXCEPT !.submitter_id = submitter_id]

\* enum Input: the variants serde accepts as the "action" tag.
InputVariants == {"ReadResponses", "SubmitForm"}

\* serde_json::from_slice::<Input>: the variant and the fields Input declares;
\* any other field of the body is dropped.
ParseInput(body) ==
    IF ~body.json THEN Err("Invalid input JSON: expected value")
    ELSE IF body.action = "" THEN Err("Invalid input JSON: missing field action")
    ELSE IF body.action \notin InputVariants
    THEN Err("Invalid input JSON: unknown variant")
    ELSE IF body.action = "SubmitForm" /\ ~body.has_answers
    THEN Err("Invalid input JSON: missing field encrypted_answers")
    ELSE Ok([action |-> body.action,
             encrypted_answers |->
                IF body.action = "SubmitForm" THEN body.encrypted_answers ELSE NoHex])

(***************************************************************************)
(* main.rs: the pure parts of the handlers.                                *)
(***************************************************************************)
\* The environment's PROTECTED_MASTER_KEY: absent, or a hex string of nbytes
\* bytes whose big-endian value is val.
EnvKey(present, odd, nbytes, val) ==
    [present |-> present, odd |-> odd, badchar |-> FALSE, nbytes |-> nbytes, val |-> val]

load_master_key(env_key) ==
    IF env_key.present THEN parse_private_key(env_key)
    ELSE Err("Master key (PROTECTED_MASTER_KEY) not found in env")

\* serialize_compressed and hex::encode of a public key: 33 bytes, 66 digits.
SerializeCompressed(point) == Bytes(PUBKEY_SIZE, "", point, 0, AeadSeal(HkdfExpand(0, ""), 0, NotJson))

handle_get_master_public_key(env_key) ==
    LET master_privkey == load_master_key(env_key)
    IN  IF ~master_privkey.ok THEN master_privkey
        ELSE LET master_pubkey == PublicKeyFromSecret(master_privkey.val)
                 pubkey_hex == HexOf(SerializeCompressed(master_pubkey))
             IN  Ok([kind |-> "GetMasterPublicKey", master_public_key |-> pubkey_hex])

\* handle_read_responses, step 2: the caller is not the form's creator.
NotCreator_Never(caller_id, form) == FALSE

NotCreator(caller_id, form) == caller_id # form.creator_id

\* The checks on the submitted envelope without the size limit.
ValidateEnvelope_NoLimit(encrypted_answers) ==
    LET encrypted_bytes == HexDecode(encrypted_answers)
    IN  IF ~encrypted_bytes.ok THEN Err("Invalid hex in encrypted_answers")
        ELSE IF encrypted_bytes.val.len < MIN_EC01_SIZE
        THEN Err("encrypted_answers too short")
        ELSE IF encrypted_bytes.val.magic # "EC01"
        THEN Err("encrypted_answers must start with EC01 magic bytes")
        ELSE IF ~PublicKeyParse(encrypted_bytes.val.eph).ok
        THEN Err("Invalid ephemeral public key in EC01 blob")
        ELSE Ok(encrypted_bytes.val)

\* handle_submit_form, step 2: the checks on the submitted envelope.
ValidateEnvelope(encrypted_answers) ==
    LET encrypted_bytes == HexDecode(encrypted_answers)
    IN  IF ~encrypted_bytes.ok THEN Err("Invalid hex in encrypted_answers")
        ELSE IF encrypted_bytes.val.len < MIN_EC01_SIZE
        THEN Err("encrypted_answers too short")
        ELSE IF encrypted_bytes.val.magic # "EC01"
        THEN Err("encrypted_answers must start with EC01 magic bytes")
        ELSE IF ~PublicKeyParse(encrypted_bytes.val.eph).ok
        THEN Err("Invalid ephemeral public key in EC01 blob")
        ELSE IF encrypted_bytes.val.len > MAX_BLOB_SIZE
        THEN Err("encrypted_answers too large")
        ELSE Ok(encrypted_bytes.val)

\* The cryptographic operations that the closure performs for one submission.
DecryptSubmissionOps(form_privkey, submission) ==
    LET ciphertext == HexDecode(submission.encrypted_blob)
    IN  IF ~ciphertext.ok THEN <<>>
        ELSE decrypt_blob(form_privkey, ciphertext.val).ops

\* handle_read_responses, step 6, for one submission: the closure's result.
DecryptSubmission(form_privkey, submission) ==
    LET ciphertext == HexDecode(submission.encrypted_blob)
    IN  IF ~ciphertext.ok THEN Err("Invalid hex ciphertext")
        ELSE LET plaintext == decrypt_blob(form_privkey, ciphertext.val).res
             IN  IF ~plaintext.ok THEN Err("Decryption failed")
                 ELSE LET answers == JsonFromSlice(plaintext.val)
                      IN  IF ~answers.ok THEN Err("Invalid JSON in decrypted answers")
                          ELSE Ok([submitter_id |-> submission.submitter_id,
                                   answers |-> answers.val,
                                   submitted_at |-> submission.submitted_at])

(***************************************************************************)
(* Bounds of the model.                                                    *)
(***************************************************************************)
\* Submissions in a fetched batch, where the batch is drawn freely.
MaxBatch == 3

(***************************************************************************)
(* The system: invocations of the WASI module, the db-api service and its  *)
(* submissions table.                                                      *)
(***************************************************************************)
\* env::signer_account_id() of an invocation without a verified caller.
NONE == "<none>"

\* FORM_CREATOR_ID, the creator_id of the seeded form.
CREATOR == "creator.near"

Callers == {NONE, CREATOR, "alice.near"}

\* Invocations that can be running at once.  Invocation 1 takes any request;
\* invocation 2 is a concurrent writer and takes SubmitForm requests whose
\* envelope passes validation.
Procs == {1, 2}

\* HTTP clients of db-api: the invocations.
Clients == Procs

SubmitHex ==
    {HexOf(E_good), HexOf(E_tag), HexOf(E_max), HexOf(E_over), HexOf(E_short),
     HexOf(E_magic), HexOf(E_point), HexOf(E_overmagic), H_badchar}

Requests ==
    {Body(FALSE, "", FALSE, NoHex), Body(TRUE, "", FALSE, NoHex),
     Body(TRUE, "DeleteForm", FALSE, NoHex),
     Body(TRUE, "GetMasterPublicKey", FALSE, NoHex),
     Body(TRUE, "ReadResponses", FALSE, NoHex),
     Body(TRUE, "SubmitForm", FALSE, NoHex)}
    \cup {Body(TRUE, "SubmitForm", TRUE, h) : h \in SubmitHex}
    \cup {BodyWithSubmitter(HexOf(E_good), CREATOR)}

MasterKeyEnvs ==
    {EnvKey(FALSE, FALSE, 0, 0), EnvKey(TRUE, TRUE, 32, MasterSk),
     EnvKey(TRUE, FALSE, 32, 0), EnvKey(TRUE, FALSE, 32, MasterSk),
     EnvKey(TRUE, FALSE, 32, 2), EnvKey(TRUE, FALSE, 32, 4)}

WriterRequests == {Body(TRUE, "SubmitForm", TRUE, h) : h \in {HexOf(E_good), HexOf(E_tag)}}

RequestsOf(p) == IF p = 1 THEN Requests ELSE WriterRequests

VARIABLES inv, rows, http

vars == <<inv, rows, http>>

NoResult == Err("")

IdleInv ==
    [pc |-> "idle", input |-> Body(FALSE, "", FALSE, NoHex), caller |-> NONE,
     form_id |-> FORM_ID,
     calls |-> <<>>, form_creator |-> "", master |-> 0, subs |-> <<>>,
     privkey |-> 0, idx |-> 0, responses |-> <<>>, skipped |-> 0, crypto |-> <<>>,
     result |-> NoResult, outputs |-> <<>>]

NoRequest ==
    [st |-> "none", secret_ok |-> FALSE, form_id |-> "", submitter_id |-> "",
     encrypted_blob |-> NoHex, status |-> 0, id |-> 0]

Init ==
    /\ inv = [p \in Procs |-> IdleInv]
    /\ rows = <<>>
    /\ http = [c \in Clients |-> NoRequest]

\* The return of process(), the output and the exit of an invocation touch
\* nothing shared: they run without another invocation's steps in between.
Leaving(q) == inv[q].pc \in {"ret", "done"}

NoneLeaving == \A q \in Procs : ~Leaving(q)

\* A handler returning r from process().
Return(p, r, calls) ==
    inv' = [inv EXCEPT ![p].pc = "ret", ![p].result = r, ![p].calls = calls]

ErrorResponse(e) == [kind |-> "Error", success |-> FALSE, error |-> e]

(***************************************************************************)
(* db-api                                                                  *)
(***************************************************************************)
\* to_rfc3339 of a timestamp.
Rfc3339(t) == [rfc3339 |-> t]

\* GET /forms/:form_id for the seeded form.
DbGetForm == [creator_id |-> CREATOR]

RECURSIVE Reverse(_)
Reverse(s) == IF s = <<>> THEN <<>> ELSE Append(Reverse(Tail(s)), Head(s))

\* GET /forms/:form_id/submissions: ORDER BY submitted_at DESC.
DbGetSubmissions(table) ==
    LET desc == Reverse(table)
    IN  [i \in 1..Len(desc) |->
            [submitter_id |-> desc[i].submitter_id,
             encrypted_blob |-> desc[i].encrypted_blob,
             submitted_at |-> Rfc3339(desc[i].submitted_at)]]

\* The JSON body of POST /submissions, in bytes.
RequestBodySize(req) ==
    52 + Len(req.form_id) + Len(req.submitter_id) + StrLen(req.encrypted_blob)

\* The submissions table's unique constraint on (form_id, submitter_id).
UniqueViolation(table, form_id, submitter_id) ==
    \E i \in 1..Len(table) :
        table[i].form_id = form_id /\ table[i].submitter_id = submitter_id

\* Uuid::parse_str: the strings of the model that are UUIDs.
IsUuid(form_id) ==
    form_id \in {FORM_ID, "11111111-2222-3333-4444-555555555555"}

\* POST /submissions up to the INSERT: the status of an early answer, 0 to go
\* on.  The body limit and the API secret come before the handler; in the
\* handler the form id must be a UUID, then the submitter is checked, then the
\* form is looked up (db_error: the SELECT fails), then the blob's size.
CreateSubmissionChecks(req, db_error) ==
    IF RequestBodySize(req) > REQUEST_BODY_LIMIT THEN 413
    ELSE IF ~req.secret_ok THEN 401
    ELSE IF ~IsUuid(req.form_id) THEN 400
    ELSE IF Len(req.submitter_id) = 0 \/ Len(req.submitter_id) > MAX_SUBMITTER_LEN THEN 400
    ELSE IF db_error THEN 500
    ELSE IF req.form_id # FORM_ID THEN 404
    ELSE IF StrLen(req.encrypted_blob) > DB_MAX_BLOB_SIZE THEN 413
    ELSE 0

Respond(c, status, id) ==
    http' = [http EXCEPT ![c] =
                [@ EXCEPT !.st = "responded", !.status = status, !.id = id]]

DbCreateCheck(c) ==
    /\ http[c].st = "received"
    /\ NoneLeaving
    /\ \E db_error \in BOOLEAN :
        LET status == CreateSubmissionChecks(http[c], db_error)
        IN  IF status # 0 THEN Respond(c, status, 0)
            ELSE http' = [http EXCEPT ![c].st = "checked"]
    /\ UNCHANGED <<inv, rows>>

\* The INSERT and the answer: 500 on a database error, 409 on the unique
\* constraint, the new row's id otherwise.  client is not a column: it records
\* which HTTP client the row came from.
DbCreateInsert(c) ==
    /\ http[c].st = "checked"
    /\ NoneLeaving
    /\ \E db_error \in BOOLEAN :
        LET req == http[c]
            submission_id == Len(rows) + 1
        IN  IF db_error
            THEN Respond(c, 500, 0) /\ UNCHANGED rows
            ELSE IF UniqueViolation(rows, req.form_id, req.submitter_id)
            THEN Respond(c, 409, 0) /\ UNCHANGED rows
            ELSE /\ rows' = Append(rows,
                        [id |-> submission_id, form_id |-> req.form_id,
                         submitter_id |-> req.submitter_id,
                         encrypted_blob |-> req.encrypted_blob,
                         submitted_at |-> submission_id, client |-> c])
                 /\ Respond(c, 200, submission_id)
    /\ UNCHANGED inv

(***************************************************************************)
(* main.rs: process() and the handlers, one action per collaborator call.  *)
(* calls is the invocation's log of the collaborator operations it called. *)
(***************************************************************************)

\* process(): read and parse the input, route it to its handler.
Start(p) ==
    /\ inv[p].pc = "idle"
    /\ NoneLeaving
    /\ \A q \in Procs : q < p => inv[q].pc # "idle"
    /\ \E body \in RequestsOf(p), caller \in Callers :
       \E env_key \in (IF body.action = "GetMasterPublicKey" THEN MasterKeyEnvs
                       ELSE {EnvKey(FALSE, FALSE, 0, 0)}) :
        LET input == ParseInput(body)
            started == [IdleInv EXCEPT !.input = body, !.caller = caller]
        IN  inv' = [inv EXCEPT ![p] =
                CASE ~input.ok -> [started EXCEPT !.pc = "ret", !.result = input]
                  [] input.ok /\ input.val.action = "ReadResponses" ->
                        [started EXCEPT !.pc = "rr_signer"]
                  [] input.ok /\ input.val.action = "SubmitForm" ->
                        [started EXCEPT !.pc = "sf_signer"]
                  [] input.ok /\ input.val.action = "GetMasterPublicKey" ->
                        [started EXCEPT !.pc = "ret",
                                        !.calls = <<"load_master_key">>,
                                        !.result = handle_get_master_public_key(env_key)]]
    /\ UNCHANGED <<rows, http>>

\* handle_read_responses, step 1: the verified caller.
RRSigner(p) ==
    /\ inv[p].pc = "rr_signer"
    /\ NoneLeaving
    /\ LET calls == Append(inv[p].calls, "signer_account_id")
       IN  IF inv[p].caller = NONE
           THEN Return(p, Err("Authentication required - signer_account_id not available"), calls)
           ELSE inv' = [inv EXCEPT ![p].pc = "rr_form", ![p].calls = calls]
    /\ UNCHANGED <<rows, http>>

\* Step 2: fetch the form and compare its creator with the caller.
RRGetForm(p) ==
    /\ inv[p].pc = "rr_form"
    /\ NoneLeaving
    /\ \E url_set \in BOOLEAN, net \in {"ok", "send_error", "status_500"} :
        LET calls == Append(inv[p].calls, "get_form")
            form == DbGetForm
        IN  IF ~url_set
            THEN Return(p, Err("DATABASE_API_URL environment variable not found"), inv[p].calls)
            ELSE IF net = "send_error" THEN Return(p, Err("HTTP request failed"), calls)
            ELSE IF net = "status_500"
            THEN Return(p, Err("Failed to fetch form (status 500)"), calls)
            ELSE IF NotCreator(inv[p].caller, form)
            THEN inv' = [inv EXCEPT ![p].pc = "ret", ![p].calls = calls,
                                    ![p].form_creator = form.creator_id,
                                    ![p].result = Err("Not authorized to read responses")]
            ELSE inv' = [inv EXCEPT ![p].pc = "rr_key", ![p].calls = calls,
                                    ![p].form_creator = form.creator_id]
    /\ UNCHANGED <<rows, http>>

\* Step 3: the master private key.
RRLoadKey(p) ==
    /\ inv[p].pc = "rr_key"
    /\ NoneLeaving
    /\ \E env_key \in MasterKeyEnvs :
        LET calls == Append(inv[p].calls, "load_master_key")
            master_privkey == load_master_key(env_key)
        IN  IF ~master_privkey.ok THEN Return(p, master_privkey, calls)
            ELSE inv' = [inv EXCEPT ![p].pc = "rr_subs", ![p].calls = calls,
                                    ![p].master = master_privkey.val]
    /\ UNCHANGED <<rows, http>>

\* Step 4: fetch the encrypted submissions.
RRGetSubmissions(p) ==
    /\ inv[p].pc = "rr_subs"
    /\ NoneLeaving
    /\ \E secret \in {"unset", "wrong", "right"}, net \in {"ok", "send_error", "status_500"} :
        LET calls == Append(inv[p].calls, "get_submissions")
        IN  IF secret = "unset"
            THEN Return(p, Err("API_SECRET or DATABASE_API_SECRET environment variable not found"),
                        inv[p].calls)
            ELSE IF net = "send_error" THEN Return(p, Err("HTTP request failed"), calls)
            ELSE IF secret = "wrong"
            THEN Return(p, Err("Failed to fetch submissions (status 401)"), calls)
            ELSE IF net = "status_500"
            THEN Return(p, Err("Failed to fetch submissions (status 500)"), calls)
            ELSE inv' = [inv EXCEPT ![p].pc = "rr_derive", ![p].calls = calls,
                                    ![p].subs = DbGetSubmissions(rows)]
    /\ UNCHANGED <<rows, http>>

\* Step 5: the form's private key.
RRDerive(p) ==
    /\ inv[p].pc = "rr_derive"
    /\ NoneLeaving
    /\ LET calls == Append(inv[p].calls, "derive_form_privkey")
           form_privkey == derive_form_privkey(inv[p].master, inv[p].form_id)
       IN  IF ~form_privkey.ok THEN Return(p, form_privkey, calls)
           ELSE inv' = [inv EXCEPT ![p].pc = "rr_decrypt", ![p].calls = calls,
                                   ![p].privkey = form_privkey.val, ![p].idx = 1]
    /\ UNCHANGED <<rows, http>>

\* Step 6 with a loop that gives up at the first submission it cannot decrypt.
RRDecrypt_Abort(p) ==
    /\ inv[p].pc = "rr_decrypt"
    /\ NoneLeaving
    /\ IF inv[p].idx <= Len(inv[p].subs)
       THEN LET submission == inv[p].subs[inv[p].idx]
                r == DecryptSubmission(inv[p].privkey, submission)
            IN  IF r.ok
                THEN inv' = [inv EXCEPT ![p].idx = @ + 1,
                                        ![p].responses = Append(@, r.val)]
                ELSE Return(p, r, inv[p].calls)
       ELSE Return(p, Ok([kind |-> "ReadResponses", responses |-> inv[p].responses,
                          skipped_count |-> inv[p].skipped]), inv[p].calls)
    /\ UNCHANGED <<rows, http>>

\* Step 6: one turn of the loop over the submissions, or the return after it.
RRDecrypt(p) ==
    /\ inv[p].pc = "rr_decrypt"
    /\ NoneLeaving
    /\ IF inv[p].idx <= Len(inv[p].subs)
       THEN LET submission == inv[p].subs[inv[p].idx]
                r == DecryptSubmission(inv[p].privkey, submission)
            IN  inv' = [inv EXCEPT
                    ![p].idx = @ + 1,
                    ![p].responses = IF r.ok THEN Append(@, r.val) ELSE @,
                    ![p].skipped = IF r.ok THEN @ ELSE @ + 1,
                    ![p].crypto = Append(@,
                        [ok |-> r.ok,
                         ops |-> DecryptSubmissionOps(inv[p].privkey, submission)])]
       ELSE Return(p, Ok([kind |-> "ReadResponses", responses |-> inv[p].responses,
                          skipped_count |-> inv[p].skipped]), inv[p].calls)
    /\ UNCHANGED <<rows, http>>

\* The SubmitFormInput that process() hands to handle_submit_form.
SubmitInput(p) == ParseInput(inv[p].input).val

\* handle_submit_form, step 1: the verified caller.
SFSigner(p) ==
    /\ inv[p].pc = "sf_signer"
    /\ NoneLeaving
    /\ LET calls == Append(inv[p].calls, "signer_account_id")
       IN  IF inv[p].caller = NONE
           THEN Return(p, Err("Authentication required - wallet signature not valid"), calls)
           ELSE inv' = [inv EXCEPT ![p].pc = "sf_validate", ![p].calls = calls]
    /\ UNCHANGED <<rows, http>>

\* Step 2 validating by a trial decryption with the form's private key.
SFValidate_Decrypt(p) ==
    /\ inv[p].pc = "sf_validate"
    /\ NoneLeaving
    /\ LET v == ValidateEnvelope(inv[p].input.encrypted_answers)
           form_privkey == derive_form_privkey(MasterSk, FORM_ID)
           calls == inv[p].calls \o <<"load_master_key", "derive_form_privkey">>
       IN  IF ~v.ok THEN Return(p, v, inv[p].calls)
           ELSE inv' = [inv EXCEPT
                    ![p].pc = "sf_post", ![p].calls = calls,
                    ![p].master = MasterSk, ![p].privkey = form_privkey.val,
                    ![p].crypto = Append(@,
                        [ok |-> decrypt_blob(form_privkey.val, v.val).res.ok,
                         ops |-> decrypt_blob(form_privkey.val, v.val).ops])]
    /\ UNCHANGED <<rows, http>>

\* Step 2 going on to the storage write whatever the validation says.
SFValidate_Skip(p) ==
    /\ inv[p].pc = "sf_validate"
    /\ NoneLeaving
    /\ inv' = [inv EXCEPT ![p].pc = "sf_post"]
    /\ UNCHANGED <<rows, http>>

\* Step 2: validate the envelope.
SFValidate(p) ==
    /\ inv[p].pc = "sf_validate"
    /\ NoneLeaving
    /\ LET v == ValidateEnvelope(SubmitInput(p).encrypted_answers)
       IN  IF ~v.ok THEN Return(p, v, inv[p].calls)
           ELSE inv' = [inv EXCEPT ![p].pc = "sf_post"]
    /\ UNCHANGED <<rows, http>>

\* Step 3 taking the submitter from the payload when it names one.
SFPost_PayloadSubmitter(p) ==
    /\ inv[p].pc = "sf_post"
    /\ NoneLeaving
    /\ \E url_set \in BOOLEAN, secret \in {"unset", "wrong", "right"}, sent \in BOOLEAN :
        LET calls == Append(inv[p].calls, "create_submission")
        IN  IF ~url_set
            THEN Return(p, Err("DATABASE_API_URL environment variable not found"), inv[p].calls)
                 /\ UNCHANGED http
            ELSE IF secret = "unset"
            THEN Return(p, Err("API_SECRET or DATABASE_API_SECRET environment variable not found"),
                        inv[p].calls)
                 /\ UNCHANGED http
            ELSE IF ~sent
            THEN Return(p, Err("HTTP request failed"), calls) /\ UNCHANGED http
            ELSE /\ inv' = [inv EXCEPT ![p].pc = "sf_wait", ![p].calls = calls]
                 /\ http' = [http EXCEPT ![p] =
                        [NoRequest EXCEPT !.st = "received",
                                          !.secret_ok = (secret = "right"),
                                          !.form_id = FORM_ID,
                                          !.submitter_id =
                                              IF inv[p].input.submitter_id # ""
                                              THEN inv[p].input.submitter_id
                                              ELSE inv[p].caller,
                                          !.encrypted_blob = inv[p].input.encrypted_answers]]
    /\ UNCHANGED rows

\* Step 3, db::create_submission: send POST /submissions.
SFPost(p) ==
    /\ inv[p].pc = "sf_post"
    /\ NoneLeaving
    /\ \E url_set \in BOOLEAN, secret \in {"unset", "wrong", "right"}, sent \in BOOLEAN :
        LET calls == Append(inv[p].calls, "create_submission")
        IN  IF ~url_set
            THEN Return(p, Err("DATABASE_API_URL environment variable not found"), inv[p].calls)
                 /\ UNCHANGED http
            ELSE IF secret = "unset"
            THEN Return(p, Err("API_SECRET or DATABASE_API_SECRET environment variable not found"),
                        inv[p].calls)
                 /\ UNCHANGED http
            ELSE IF ~sent
            THEN Return(p, Err("HTTP request failed"), calls) /\ UNCHANGED http
            ELSE /\ inv' = [inv EXCEPT ![p].pc = "sf_wait", ![p].calls = calls]
                 /\ http' = [http EXCEPT ![p] =
                        [NoRequest EXCEPT !.st = "received",
                                          !.secret_ok = (secret = "right"),
                                          !.form_id = FORM_ID,
                                          !.submitter_id = inv[p].caller,
                                          !.encrypted_blob = SubmitInput(p).encrypted_answers]]
    /\ UNCHANGED rows

\* db::create_submission with one message for every status that is not a success.
CreateSubmissionResult_Generic(status, id) ==
    IF status # 200 /\ status # 201
    THEN Err("Failed to create submission (status " \o ToString(status) \o ")")
    ELSE Ok(id)

\* db::create_submission, the status of the answer as a result.
CreateSubmissionResult(status, id) ==
    IF status # 200 /\ status # 201
    THEN IF status = 409
         THEN Err("You have already submitted this form. Each account can only submit once.")
         ELSE Err("Failed to create submission (status " \o ToString(status) \o ")")
    ELSE Ok(id)

\* Step 3 sending the request again when db-api answers 500.
SFResponse_Retry(p) ==
    /\ inv[p].pc = "sf_wait"
    /\ NoneLeaving
    /\ http[p].st = "responded"
    /\ LET submission_id == CreateSubmissionResult(http[p].status, http[p].id)
       IN  IF http[p].status = 500
           THEN inv' = [inv EXCEPT ![p].pc = "sf_post"]
           ELSE IF ~submission_id.ok THEN Return(p, submission_id, inv[p].calls)
           ELSE Return(p, Ok([kind |-> "SubmitForm", success |-> TRUE,
                              submission_id |-> submission_id.val]), inv[p].calls)
    /\ UNCHANGED <<rows, http>>

\* Step 3, the answer of db-api.
SFResponse(p) ==
    /\ inv[p].pc = "sf_wait"
    /\ NoneLeaving
    /\ http[p].st = "responded"
    /\ LET submission_id == CreateSubmissionResult(http[p].status, http[p].id)
       IN  IF ~submission_id.ok THEN Return(p, submission_id, inv[p].calls)
           ELSE Return(p, Ok([kind |-> "SubmitForm", success |-> TRUE,
                              submission_id |-> submission_id.val]), inv[p].calls)
    /\ UNCHANGED <<rows, http>>

\* main() writing an output for Ok only.
MainEmit_DropError(p) ==
    /\ inv[p].pc = "ret"
    /\ inv' = [inv EXCEPT
            ![p].pc = "done",
            ![p].outputs = IF inv[p].result.ok THEN Append(@, inv[p].result.val) ELSE @]
    /\ UNCHANGED <<rows, http>>

\* main(): write the result of process() as the invocation's output.
MainEmit(p) ==
    /\ inv[p].pc = "ret"
    /\ inv' = [inv EXCEPT
            ![p].pc = "done",
            ![p].outputs = Append(@, IF inv[p].result.ok THEN inv[p].result.val
                                     ELSE ErrorResponse(inv[p].result.err))]
    /\ UNCHANGED <<rows, http>>

\* The invocation's process ends; nothing of it is kept.
Exit(p) ==
    /\ inv[p].pc = "done"
    /\ inv' = [inv EXCEPT ![p] = IdleInv]
    /\ http' = [http EXCEPT ![p] = NoRequest]
    /\ UNCHANGED rows

Next ==
    \/ \E p \in Procs : Start(p)
    \/ \E p \in Procs : RRSigner(p)
    \/ \E p \in Procs : RRGetForm(p)
    \/ \E p \in Procs : RRLoadKey(p)
    \/ \E p \in Procs : RRGetSubmissions(p)
    \/ \E p \in Procs : RRDerive(p)
    \/ \E p \in Procs : RRDecrypt(p)
    \/ \E p \in Procs : SFSigner(p)
    \/ \E p \in Procs : SFValidate(p)
    \/ \E p \in Procs : SFPost(p)
    \/ \E p \in Procs : SFResponse(p)
    \/ \E p \in Procs : MainEmit(p)
    \/ \E p \in Procs : Exit(p)
    \/ \E c \in Clients : DbCreateCheck(c)
    \/ \E c \in Clients : DbCreateInsert(c)

Spec == Init /\ [][Next]_vars

(***************************************************************************)
(* The decrypt loop of handle_read_responses on a freely drawn batch: the  *)
(* invocation stands after step 5, get_submissions having answered with    *)
(* any sequence of at most MaxBatch records over BatchHex.                 *)
(***************************************************************************)
BatchHex ==
    {HexOf(E_good), HexOf(E_good2), HexOf(E_min), HexOf(E_short), HexOf(E_len4),
     HexOf(E_tiny), HexOf(E_magic), HexOf(E_point), HexOf(E_tag), HexOf(E_nonce),
     HexOf(E_otherkey), HexOf(E_notjson), H_odd, H_badchar}

BatchMasters == {MasterSk, 4}

BatchOf(n, f) ==
    [i \in 1..n |-> [submitter_id |-> "s" \o ToString(i), encrypted_blob |-> f[i],
                     submitted_at |-> Rfc3339(n + 1 - i)]]

InitBatch ==
    /\ rows = <<>>
    /\ http = [c \in Clients |-> NoRequest]
    /\ \E n \in 0..MaxBatch, master \in BatchMasters :
       \E f \in [1..n -> BatchHex] :
        inv = [p \in Procs |->
                IF p = 1
                THEN [IdleInv EXCEPT
                        !.pc = "rr_decrypt",
                        !.input = Body(TRUE, "ReadResponses", FALSE, NoHex),
                        !.caller = CREATOR,
                        !.calls = <<"signer_account_id", "get_form", "load_master_key",
                                    "get_submissions", "derive_form_privkey">>,
                        !.form_creator = CREATOR, !.master = master,
                        !.subs = BatchOf(n, f),
                        !.privkey = derive_form_privkey(master, FORM_ID).val,
                        !.idx = 1]
                ELSE IdleInv]

NextBatch ==
    \/ \E p \in Procs : RRDecrypt(p)
    \/ \E p \in Procs : MainEmit(p)

SpecBatch == InitBatch /\ [][NextBatch]_vars

(***************************************************************************)
(* Key derivation and decryption for any master key and any form id: the   *)
(* invocation stands before step 5 of handle_read_responses in a build     *)
(* whose FORM_ID is form_id, get_submissions having answered with one      *)
(* envelope that the client-side encryptor sealed for that form's public   *)
(* key.                                                                    *)
(***************************************************************************)
KeyMasters == 1..(CurveOrder - 1)

EphemeralKeys == 1..(CurveOrder - 1)

Plaintexts == {Answers("q1:yes"), EmptyPlaintext, NotJson}

\* Magic, ephemeral key, nonce, plaintext and tag.
EnvelopeLen(pt) == HEADER_SIZE + PUBKEY_SIZE + NONCE_SIZE + Len(pt.val) + TAG_SIZE

InitKeys ==
    /\ rows = <<>>
    /\ http = [c \in Clients |-> NoRequest]
    /\ \E master \in KeyMasters, form_id \in FormIds, eph_sk \in EphemeralKeys,
          nonce \in {7, 8}, pt \in Plaintexts :
        LET form_pub == FormPubKey(PublicKeyFromSecret(master), form_id)
            envelope == EncryptForForm(form_pub, eph_sk, nonce, pt, EnvelopeLen(pt))
        IN  inv = [p \in Procs |->
                IF p = 1
                THEN [IdleInv EXCEPT
                        !.pc = "rr_derive",
                        !.input = Body(TRUE, "ReadResponses", FALSE, NoHex),
                        !.caller = CREATOR,
                        !.form_id = form_id,
                        !.calls = <<"signer_account_id", "get_form", "load_master_key",
                                    "get_submissions">>,
                        !.form_creator = CREATOR, !.master = master,
                        !.subs = <<[submitter_id |-> "alice.near",
                                    encrypted_blob |-> HexOf(envelope),
                                    submitted_at |-> Rfc3339(1)]>>]
                ELSE IdleInv]

NextKeys ==
    \/ \E p \in Procs : RRDerive(p)
    \/ \E p \in Procs : RRDecrypt(p)
    \/ \E p \in Procs : MainEmit(p)

SpecKeys == InitKeys /\ [][NextKeys]_vars

(***************************************************************************)
(* The two users of the envelope layout on one input: invocation 1 stands  *)
(* in the decrypt loop with a fetched record whose blob is h, invocation 2 *)
(* stands before step 2 of handle_submit_form with encrypted_answers = h.  *)
(***************************************************************************)
InitCodec ==
    /\ rows = <<>>
    /\ http = [c \in Clients |-> NoRequest]
    /\ \E h \in AllHex, master \in BatchMasters :
        inv = [p \in Procs |->
                IF p = 1
                THEN [IdleInv EXCEPT
                        !.pc = "rr_decrypt",
                        !.input = Body(TRUE, "ReadResponses", FALSE, NoHex),
                        !.caller = CREATOR,
                        !.calls = <<"signer_account_id", "get_form", "load_master_key",
                                    "get_submissions", "derive_form_privkey">>,
                        !.form_creator = CREATOR, !.master = master,
                        !.subs = <<[submitter_id |-> "alice.near",
                                    encrypted_blob |-> h,
                                    submitted_at |-> Rfc3339(1)]>>,
                        !.privkey = derive_form_privkey(master, FORM_ID).val,
                        !.idx = 1]
                ELSE [IdleInv EXCEPT
                        !.pc = "sf_validate",
                        !.input = Body(TRUE, "SubmitForm", TRUE, h),
                        !.caller = "alice.near",
                        !.calls = <<"signer_account_id">>]]

NextCodec ==
    \/ \E p \in Procs : RRDecrypt(p)
    \/ \E p \in Procs : SFValidate(p)
    \/ \E p \in Procs : MainEmit(p)

SpecCodec == InitCodec /\ [][NextCodec]_vars

(***************************************************************************)
(* Claims.                                                                 *)
(***************************************************************************)
Range(seq) == {seq[i] : i \in 1..Len(seq)}

AuthErrorRead == "Not authorized to read responses"

\* C1: a ReadResponses invocation whose verified caller differs from the
\* creator_id that get_form returned ends with the authorization error, and
\* in it the master key is never read, the form key is never derived and no
\* decryption runs.
C1_AuthShortCircuit ==
    \A p \in Procs :
        (/\ inv[p].input.action = "ReadResponses"
         /\ inv[p].form_creator # ""
         /\ inv[p].caller # inv[p].form_creator)
        => /\ inv[p].pc \in {"ret", "done"}
           /\ ~inv[p].result.ok
           /\ inv[p].result.err = AuthErrorRead
           /\ "load_master_key" \notin Range(inv[p].calls)
           /\ "derive_form_privkey" \notin Range(inv[p].calls)
           /\ inv[p].master = 0 /\ inv[p].privkey = 0 /\ inv[p].crypto = <<>>
           /\ inv[p].pc = "done" => inv[p].outputs = <<ErrorResponse(AuthErrorRead)>>

C1_Witness ==
    \E p \in Procs :
        /\ inv[p].pc = "done"
        /\ inv[p].input.action = "ReadResponses"
        /\ inv[p].caller = "alice.near"
        /\ inv[p].form_creator = CREATOR
        /\ inv[p].outputs = <<ErrorResponse(AuthErrorRead)>>

Finished(p) == inv[p].pc = "done"

AuthErrorSubmit == "Authentication required - wallet signature not valid"

AuthErrorNoSigner == "Authentication required - signer_account_id not available"

ActionTags == {"ReadResponses", "SubmitForm", "GetMasterPublicKey"}

\* A request that carries one of the three tags and the fields its action needs.
WellFormedRequest(body) ==
    /\ body.json
    /\ body.action \in ActionTags
    /\ body.action = "SubmitForm" => body.has_answers

\* C2: the authorization matrix.  GetMasterPublicKey is admitted (its handler
\* runs and answers) with or without a verified caller; SubmitForm is refused
\* for lack of authorization exactly when there is no verified caller;
\* ReadResponses passes the gate exactly when the verified caller is the
\* creator_id of the fetched form.
C2_AuthorizationMatrix ==
    \A p \in Procs :
        (Finished(p) /\ WellFormedRequest(inv[p].input)) =>
            /\ inv[p].input.action = "GetMasterPublicKey" =>
                   \E env_key \in MasterKeyEnvs :
                       inv[p].result = handle_get_master_public_key(env_key)
            /\ inv[p].input.action = "SubmitForm" =>
                   ((~inv[p].result.ok /\ inv[p].result.err = AuthErrorSubmit)
                        <=> inv[p].caller = NONE)
            /\ inv[p].input.action = "ReadResponses" =>
                   /\ inv[p].caller = NONE =>
                          (~inv[p].result.ok /\ inv[p].result.err = AuthErrorNoSigner)
                   /\ inv[p].form_creator # "" =>
                          ("load_master_key" \in Range(inv[p].calls)
                               <=> inv[p].caller = inv[p].form_creator)

\* C9: a request tagged ReadResponses, SubmitForm or GetMasterPublicKey is
\* parsed and routed to its own handler, GetMasterPublicKey answering the hex
\* of the 33-byte compressed master public key; any other request fails and
\* no handler runs.
C9_ClosedVariant ==
    \A p \in Procs :
        Finished(p) =>
            /\ WellFormedRequest(inv[p].input) =>
                   /\ inv[p].calls # <<>>
                   /\ Head(inv[p].calls) =
                          (IF inv[p].input.action = "GetMasterPublicKey"
                           THEN "load_master_key" ELSE "signer_account_id")
                   /\ inv[p].caller = NONE /\ inv[p].input.action = "SubmitForm" =>
                          inv[p].result.err = AuthErrorSubmit
                   /\ inv[p].caller = NONE /\ inv[p].input.action = "ReadResponses" =>
                          inv[p].result.err = AuthErrorNoSigner
            /\ ~WellFormedRequest(inv[p].input) =>
                   ~inv[p].result.ok /\ inv[p].calls = <<>>
            /\ (inv[p].input.action = "GetMasterPublicKey" /\ inv[p].result.ok) =>
                   /\ StrLen(inv[p].result.val.master_public_key) = 66
                   /\ HexDecode(inv[p].result.val.master_public_key).val.len = 33

\* A fetched record passes the three per-record steps: hex decode, decrypt,
\* JSON parse.
Passes(form_privkey, submission) ==
    LET ciphertext == HexDecode(submission.encrypted_blob)
    IN  /\ ciphertext.ok
        /\ LET plaintext == decrypt_blob(form_privkey, ciphertext.val).res
           IN  plaintext.ok /\ JsonFromSlice(plaintext.val).ok

\* The records of a batch that pass, in the batch's order, as responses.
RECURSIVE PassingResponses(_, _)
PassingResponses(form_privkey, subs) ==
    IF subs = <<>> THEN <<>>
    ELSE LET s == Head(subs)
             rest == PassingResponses(form_privkey, Tail(subs))
         IN  IF Passes(form_privkey, s)
             THEN <<[submitter_id |-> s.submitter_id,
                     answers |-> s.encrypted_blob.bytes.ct.pt.val,
                     submitted_at |-> s.submitted_at]>> \o rest
             ELSE rest

\* C3: batch isolation.  A ReadResponses invocation that reaches the decrypt
\* loop with N fetched records of which K pass returns success, its responses
\* being exactly those K records in their fetched order, each with its own
\* submitter_id and submitted_at, and its skipped_count being N - K.
C3_BatchIsolation ==
    \A p \in Procs :
        (inv[p].pc \in {"ret", "done"} /\ inv[p].privkey # 0) =>
            LET expected == PassingResponses(inv[p].privkey, inv[p].subs)
            IN  /\ inv[p].result.ok
                /\ inv[p].result.val.kind = "ReadResponses"
                /\ inv[p].result.val.responses = expected
                /\ inv[p].result.val.skipped_count = Len(inv[p].subs) - Len(expected)

C3_Witness ==
    \E p \in Procs :
        /\ inv[p].pc = "done"
        /\ Len(inv[p].subs) = 3
        /\ Passes(inv[p].privkey, inv[p].subs[1])
        /\ ~Passes(inv[p].privkey, inv[p].subs[2])
        /\ Passes(inv[p].privkey, inv[p].subs[3])
        /\ Len(inv[p].outputs) = 1
        /\ Len(inv[p].outputs[1].responses) = 2
        /\ inv[p].outputs[1].skipped_count = 1

\* The validation steps of a submitted envelope, as the claims name them.
HexBad(h) == h.odd \/ h.badchar

TooShort(b) == b.len < 65

BadMagic(b) == b.magic # "EC01"

BadPoint(b) == b.eph \notin 1..(CurveOrder - 1)

TooLarge(b) == b.len > 200 * 1024

StructurallyValid(b) == ~TooShort(b) /\ ~BadMagic(b) /\ ~BadPoint(b)

FailsValidation(h) ==
    HexBad(h) \/ ~StructurallyValid(h.bytes) \/ TooLarge(h.bytes)

\* A SubmitForm invocation with its payload.
SubmitInvocation(p) ==
    /\ inv[p].pc # "idle"
    /\ inv[p].input.json
    /\ inv[p].input.action = "SubmitForm"
    /\ inv[p].input.has_answers

\* C4: a SubmitForm whose envelope fails a validation step (hex decode,
\* minimum length, magic tag, ephemeral-key point, maximum size) returns a
\* failure and never calls store_submission: no request of it reaches db-api,
\* and no stored row holds an envelope that fails validation.
C4_InvalidNeverStored ==
    /\ \A p \in Procs :
        (SubmitInvocation(p) /\ FailsValidation(inv[p].input.encrypted_answers)) =>
            /\ "create_submission" \notin Range(inv[p].calls)
            /\ http[p].st = "none"
            /\ Leaving(p) => ~inv[p].result.ok
            /\ Finished(p) => (Len(inv[p].outputs) = 1 /\ ~inv[p].outputs[1].success)
    /\ \A i \in 1..Len(rows) : ~FailsValidation(rows[i].encrypted_blob)

C4_Witness ==
    \E p \in Procs :
        /\ Finished(p)
        /\ SubmitInvocation(p)
        /\ inv[p].caller # NONE
        /\ inv[p].input.encrypted_answers = HexOf(E_point)
        /\ inv[p].outputs = <<ErrorResponse("Invalid ephemeral public key in EC01 blob")>>
        /\ Len(rows) = 1

\* C5: envelope rejection.  For bytes shorter than 65, or not starting with
\* the magic tag, or whose ephemeral-key field is no valid compressed point,
\* decryption fails and has performed no cryptographic operation (no ECDH
\* multiplication, no key derivation function, no AEAD decryption).
C5_EnvelopeRejection ==
    \A p \in Procs :
        \A i \in 1..Len(inv[p].crypto) :
            LET h == inv[p].subs[i].encrypted_blob
            IN  (~HexBad(h) /\ ~StructurallyValid(h.bytes)) =>
                    /\ inv[p].crypto[i].ops = <<>>
                    /\ ~inv[p].crypto[i].ok
                    /\ ~decrypt_blob(inv[p].privkey, h.bytes).res.ok

C5_Witness ==
    \E p \in Procs :
        /\ Len(inv[p].crypto) = 3
        /\ inv[p].subs[1].encrypted_blob = HexOf(E_short)
        /\ inv[p].subs[2].encrypted_blob = HexOf(E_magic)
        /\ inv[p].subs[3].encrypted_blob = HexOf(E_point)
        /\ \A i \in 1..3 : inv[p].crypto[i].ops = <<>> /\ ~inv[p].crypto[i].ok

StructuralErrors ==
    {"encrypted_answers too short",
     "encrypted_answers must start with EC01 magic bytes",
     "Invalid ephemeral public key in EC01 blob"}

TooLargeError == "encrypted_answers too large"

\* A SubmitForm invocation that has run the validator on a decodable envelope.
Validated(p) ==
    /\ SubmitInvocation(p)
    /\ Leaving(p)
    /\ inv[p].caller # NONE
    /\ ~HexBad(inv[p].input.encrypted_answers)

\* C6, as claimed: every oversized blob is rejected with an error that is not
\* one of the errors for structural invalidity.
C6_OversizeErrorDistinct ==
    \A p \in Procs :
        (Validated(p) /\ TooLarge(inv[p].input.encrypted_answers.bytes)) =>
            /\ ~inv[p].result.ok
            /\ inv[p].result.err \notin StructuralErrors

\* C6, amended: every oversized blob is rejected and not stored; an oversized
\* blob that passes the structural checks gets the too-large error, which is
\* none of the structural errors and is given to oversized blobs only; an
\* oversized blob that fails a structural check gets that structural error.
C6_OversizeRejected ==
    \A p \in Procs :
        Validated(p) =>
            LET b == inv[p].input.encrypted_answers.bytes
            IN  /\ TooLarge(b) =>
                    /\ ~inv[p].result.ok
                    /\ "create_submission" \notin Range(inv[p].calls)
                    /\ StructurallyValid(b) => inv[p].result.err = TooLargeError
                    /\ ~StructurallyValid(b) => inv[p].result.err \in StructuralErrors
                /\ (~inv[p].result.ok /\ inv[p].result.err = TooLargeError) =>
                    (TooLarge(b) /\ StructurallyValid(b))
                /\ TooLargeError \notin StructuralErrors

C6_Witness ==
    \E p \in Procs :
        /\ Finished(p)
        /\ Validated(p)
        /\ inv[p].input.encrypted_answers = HexOf(E_over)
        /\ inv[p].outputs = <<ErrorResponse(TooLargeError)>>

\* The one output of an invocation: the success output of its action, or a
\* failure object with success = false and the error's message.
OneResult(p) ==
    /\ Len(inv[p].outputs) = 1
    /\ IF inv[p].result.ok
       THEN /\ inv[p].outputs[1] = inv[p].result.val
            /\ inv[p].outputs[1].kind = inv[p].input.action
       ELSE /\ inv[p].outputs[1] =
                   [kind |-> "Error", success |-> FALSE, error |-> inv[p].result.err]
            /\ inv[p].result.err # ""

\* C7: every invocation that ends has emitted exactly one result, the success
\* output of its action or a failure object {success: false, error}; nothing
\* is emitted before process() has returned, and never a second result.
C7_ExactlyOneResult ==
    [][\A p \in Procs :
         /\ (inv[p].pc # "idle" /\ inv'[p].pc = "idle") => OneResult(p)
         /\ Len(inv'[p].outputs) <= 1
         /\ inv'[p].outputs # <<>> => inv'[p].pc = "done"]_vars

C7_Witness ==
    \E p \in Procs :
        /\ Finished(p)
        /\ inv[p].input.action = "ReadResponses"
        /\ inv[p].outputs = <<ErrorResponse("Failed to derive private key")>>

DuplicateError ==
    "You have already submitted this form. Each account can only submit once."

RowsOf(form_id, submitter_id) ==
    {i \in 1..Len(rows) :
        rows[i].form_id = form_id /\ rows[i].submitter_id = submitter_id}

\* What C8 says of a state: no two rows of one (form, submitter); a finished
\* SubmitForm whose request was answered reports 409, and only 409, with the
\* already-submitted message, and succeeds only with the one row of its
\* submitter being the row it stored, blob unchanged.
OnePerSubmitterState ==
    /\ \A i, j \in 1..Len(rows) :
        (rows[i].form_id = rows[j].form_id
            /\ rows[i].submitter_id = rows[j].submitter_id) => i = j
    /\ \A p \in Procs :
        (SubmitInvocation(p) /\ Leaving(p) /\ http[p].st = "responded") =>
            /\ http[p].status = 409 <=>
                   (~inv[p].result.ok /\ inv[p].result.err = DuplicateError)
            /\ http[p].status = 409 =>
                   /\ RowsOf(FORM_ID, inv[p].caller) # {}
                   /\ \A i \in RowsOf(FORM_ID, inv[p].caller) : rows[i].id # http[p].id
            /\ inv[p].result.ok =>
                   /\ http[p].status = 200
                   /\ \E i \in 1..Len(rows) :
                        /\ RowsOf(FORM_ID, inv[p].caller) = {i}
                        /\ rows[i].id = inv[p].result.val.submission_id
                        /\ rows[i].encrypted_blob = inv[p].input.encrypted_answers

\* C8: the table holds at most one submission per (form, submitter), whatever
\* the interleaving of the SubmitForm invocations.  An INSERT for a submitter
\* who already has a row stores nothing and is answered 409 (500 when the
\* database itself fails); the invocation reports 409 with the
\* already-submitted message, which no other storage answer gets, and an
\* invocation succeeds only with the row it stored.
C8_OnePerSubmitter ==
    [][/\ OnePerSubmitterState'
       /\ \A c \in Clients :
            (/\ http[c].st = "checked"
             /\ http'[c].st = "responded"
             /\ RowsOf(http[c].form_id, http[c].submitter_id) # {}) =>
                /\ rows' = rows
                /\ http'[c].status \in {409, 500}
       /\ \A p \in Procs :
            (inv[p].pc = "sf_wait" /\ inv'[p].pc = "ret" /\ http[p].status # 200) =>
                /\ ~inv'[p].result.ok
                /\ http[p].status # 409 =>
                     inv'[p].result.err =
                        "Failed to create submission (status "
                            \o ToString(http[p].status) \o ")"]_vars

\* Two invocations of one submitter in flight together: the second INSERT is
\* refused and reported as a duplicate.
C8_Witness ==
    \E p, q \in Procs :
        /\ p # q
        /\ Finished(p)
        /\ inv[p].outputs = <<ErrorResponse(DuplicateError)>>
        /\ inv[q].pc = "sf_wait"
        /\ inv[q].caller = inv[p].caller
        /\ http[q].st = "responded" /\ http[q].status = 200
        /\ Cardinality(RowsOf(FORM_ID, inv[p].caller)) = 1

\* The tweak of a form id is no scalar: zero, or not below the curve order.
BadTweak(form_id) ==
    LET t == Sha256(DERIVATION_PREFIX, form_id) IN t = 0 \/ t >= CurveOrder

\* C11: an envelope sealed for the form public key master_pub + tweak*G is
\* decrypted with the derived form private key to exactly the plaintext that
\* was sealed, for every master key, form id, ephemeral key, nonce and
\* plaintext for which the derivation succeeds; a JSON plaintext comes back as
\* the one response.
C11_RoundTrip ==
    \A p \in Procs :
        (inv[p].pc \in {"rr_decrypt", "ret", "done"} /\ inv[p].idx > 1) =>
            LET submission == inv[p].subs[1]
                envelope == submission.encrypted_blob.bytes
                pt == envelope.ct.pt
            IN  /\ derive_form_privkey(inv[p].master, inv[p].form_id) = Ok(inv[p].privkey)
                /\ decrypt_blob(inv[p].privkey, envelope).res = Ok(pt)
                /\ inv[p].crypto[1].ops = <<"ecdh", "hkdf", "aead">>
                /\ pt.json =>
                     /\ inv[p].crypto[1].ok
                     /\ inv[p].skipped = 0
                     /\ inv[p].responses =
                            <<[submitter_id |-> submission.submitter_id,
                               answers |-> pt.val,
                               submitted_at |-> submission.submitted_at]>>

C11_Witness ==
    \E p \in Procs :
        /\ Finished(p)
        /\ inv[p].form_id = "form-c"
        /\ inv[p].master = 3
        /\ inv[p].result.ok
        /\ Len(inv[p].result.val.responses) = 1
        /\ inv[p].result.val.responses[1].answers = "q1:yes"

\* C12: when the tweak of the form id is 0 or at least the curve order, the
\* derivation fails and returns no key, and the ReadResponses invocation ends
\* with that failure: no record is decrypted and its output is a failure
\* object, without responses and without skipped_count.
C12_BadTweakFatal ==
    \A p \in Procs :
        BadTweak(inv[p].form_id) =>
            /\ ~derive_form_privkey(inv[p].master, inv[p].form_id).ok
            /\ inv[p].privkey = 0
            /\ inv[p].pc \in {"idle", "rr_derive", "ret", "done"}
            /\ inv[p].pc \in {"ret", "done"} =>
                 /\ ~inv[p].result.ok
                 /\ inv[p].result.err = "Failed to create tweak"
                 /\ inv[p].responses = <<>> /\ inv[p].skipped = 0
                 /\ inv[p].crypto = <<>>
            /\ inv[p].pc = "done" =>
                 inv[p].outputs = <<ErrorResponse("Failed to create tweak")>>

C12_Witness ==
    \E p \in Procs :
        /\ Finished(p)
        /\ inv[p].form_id = "form-order"
        /\ "derive_form_privkey" \in Range(inv[p].calls)
        /\ inv[p].outputs = <<ErrorResponse("Failed to create tweak")>>

\* The collaborator operations of an invocation, as they stand in its call log.
Collaborators ==
    {"signer_account_id", "get_form", "load_master_key", "get_submissions",
     "create_submission"}

Count(seq, x) == Cardinality({i \in 1..Len(seq) : seq[i] = x})

\* The collaborators whose failure a message can report (none for any other message).
FailedCollaborator(err) ==
    CASE err \in {AuthErrorNoSigner, AuthErrorSubmit} -> {"signer_account_id"}
      [] err = "Failed to fetch form (status 500)" -> {"get_form"}
      [] err \in {"Master key (PROTECTED_MASTER_KEY) not found in env",
                  "Odd number of digits", "Invalid character",
                  "Invalid private key"} -> {"load_master_key"}
      [] err \in {"Failed to fetch submissions (status 401)",
                  "Failed to fetch submissions (status 500)"} -> {"get_submissions"}
      [] err = "HTTP request failed" ->
            {"get_form", "get_submissions", "create_submission"}
      [] err = DuplicateError -> {"create_submission"}
      [] err \in {"Failed to create submission (status " \o ToString(status) \o ")" :
                      status \in {400, 401, 404, 413, 500}} -> {"create_submission"}
      [] OTHER -> {}

\* C13: within an invocation every collaborator operation is called at most
\* once; a collaborator's failure ends the invocation with a failure result,
\* the failed call being the last of the invocation; after process() has
\* returned no call is made, and an invocation sends at most one request to
\* storage.
C13_NoRetries ==
    [][\A p \in Procs :
         /\ \A op \in Collaborators : Count(inv'[p].calls, op) <= 1
         /\ (Leaving(p) /\ inv'[p].pc # "idle") =>
                (inv'[p].calls = inv[p].calls /\ http'[p] = http[p])
         /\ (inv[p].pc \in {"rr_signer", "sf_signer"} /\ inv[p].caller = NONE
                /\ inv'[p] # inv[p]) =>
                (inv'[p].pc = "ret" /\ ~inv'[p].result.ok)
         /\ (inv[p].pc = "sf_wait" /\ inv'[p] # inv[p] /\ http[p].status # 200) =>
                (inv'[p].pc = "ret" /\ ~inv'[p].result.ok)
         /\ (http'[p].st = "received" /\ http[p].st # "received") => http[p].st = "none"
         /\ (inv'[p].pc = "ret" /\ ~inv'[p].result.ok
                /\ FailedCollaborator(inv'[p].result.err) # {}) =>
                /\ inv'[p].calls # <<>>
                /\ inv'[p].calls[Len(inv'[p].calls)]
                        \in FailedCollaborator(inv'[p].result.err)]_vars

C13_Witness ==
    \E p \in Procs :
        /\ Finished(p)
        /\ SubmitInvocation(p)
        /\ http[p].st = "responded" /\ http[p].status = 500
        /\ inv[p].calls = <<"signer_account_id", "create_submission">>
        /\ inv[p].outputs = <<ErrorResponse("Failed to create submission (status 500)")>>

\* C14: a SubmitForm invocation, accepted or rejected, never reads the master
\* private key, never derives a form key and never attempts a decryption; the
\* hex string it hands to storage is the request's encrypted_answers, unchanged.
C14_SubmitNeverDecrypts ==
    \A p \in Procs :
        SubmitInvocation(p) =>
            /\ Range(inv[p].calls) \subseteq {"signer_account_id", "create_submission"}
            /\ inv[p].master = 0 /\ inv[p].privkey = 0
            /\ inv[p].crypto = <<>>
            /\ inv[p].responses = <<>>
            /\ http[p].st # "none" =>
                   http[p].encrypted_blob = inv[p].input.encrypted_answers

C14_Witness ==
    \E p \in Procs :
        /\ Finished(p)
        /\ SubmitInvocation(p)
        /\ inv[p].result.ok
        /\ inv[p].calls = <<"signer_account_id", "create_submission">>
        /\ \E i \in 1..Len(rows) :
            /\ rows[i].id = inv[p].result.val.submission_id
            /\ rows[i].encrypted_blob = inv[p].input.encrypted_answers

\* C15: every envelope that passes SubmitForm validation is within the size
\* limits of the storage service when sent as a hex string: the request that
\* the invocation posts has an encrypted_blob of at most 200*1024 characters
\* and a body of at most 250*1024 bytes, and is never answered 413.
C15_ValidatedFitsStorage ==
    \A p \in Procs :
        (SubmitInvocation(p) /\ http[p].st # "none") =>
            /\ StrLen(http[p].encrypted_blob) <= DB_MAX_BLOB_SIZE
            /\ RequestBodySize(http[p]) <= REQUEST_BODY_LIMIT
            /\ http[p].st = "responded" => http[p].status # 413

\* The validator's length, magic and curve-point checks passed: the invocation
\* went on to the storage write, or stopped at the size limit that follows them.
PassedStructuralChecks(q) ==
    \/ inv[q].pc \in {"sf_post", "sf_wait"}
    \/ inv[q].pc \in {"ret", "done"} /\ inv[q].result.ok
    \/ inv[q].pc \in {"ret", "done"} /\ ~inv[q].result.ok
            /\ inv[q].result.err = TooLargeError

\* C16: a byte sequence passes the length, magic and curve-point checks of
\* handle_submit_form if and only if decrypt_blob gets past its own checks on it
\* and reaches the ECDH step.
C16_SameStructuralChecks ==
    \A p, q \in Procs :
        (/\ inv[p].input.action = "ReadResponses" /\ inv[p].idx > 1
         /\ SubmitInvocation(q) /\ inv[q].pc # "sf_validate"
         /\ inv[p].subs[1].encrypted_blob = inv[q].input.encrypted_answers
         /\ ~HexBad(inv[q].input.encrypted_answers)) =>
            (PassedStructuralChecks(q) <=> inv[p].crypto[1].ops # <<>>)

C16_Witness ==
    \E p, q \in Procs :
        /\ inv[p].input.action = "ReadResponses" /\ inv[p].idx > 1
        /\ SubmitInvocation(q) /\ Finished(q)
        /\ inv[p].subs[1].encrypted_blob = HexOf(E_over)
        /\ inv[q].input.encrypted_answers = HexOf(E_over)
        /\ inv[q].result.err = TooLargeError
        /\ inv[p].crypto[1].ops = <<"ecdh", "hkdf", "aead">>

\* C17: every row that storage inserts for a SubmitForm invocation carries the
\* verified caller of that invocation as its submitter, the fixed form id, and
\* the request's encrypted_answers unchanged; a submitter_id in the request
\* payload has no effect on the row.
C17_StoredUnderVerifiedCaller ==
    [][Len(rows') > Len(rows) =>
          /\ Len(rows') = Len(rows) + 1
          /\ LET row == rows'[Len(rows')]
                 p == row.client
             IN  /\ SubmitInvocation(p)
                 /\ inv[p].caller # NONE
                 /\ row.submitter_id = inv[p].caller
                 /\ row.form_id = FORM_ID
                 /\ row.encrypted_blob = inv[p].input.encrypted_answers
                 /\ http'[p].id = row.id]_vars

C17_Witness ==
    \E p \in Procs :
        /\ Finished(p)
        /\ inv[p].input.submitter_id = CREATOR
        /\ inv[p].caller = "alice.near"
        /\ inv[p].result.ok
        /\ \E i \in 1..Len(rows) :
            /\ rows[i].id = inv[p].result.val.submission_id
            /\ rows[i].submitter_id = "alice.near"
            /\ rows[i].form_id = FORM_ID
            /\ rows[i].encrypted_blob = HexOf(E_good)

====
